---- MODULE Spec2Model ----
(***************************************************************************)
(* Model of swebench/harness/docker_utils.py: copy_to_container,           *)
(* write_to_container, remove_image and exec_run_with_timeout, driven by a *)
(* caller (one thread under Spec, two under ConcSpec) against a container  *)
(* handle, a docker client and the local file system.                      *)
(*                                                                         *)
(* A path is a record [dir, name]; a name is the sequence of its stem and  *)
(* its suffixes (<<"a", ".txt">> is a.txt), so that Path.with_suffix and   *)
(* the f"{dst}.tar" formatting are computed, not assumed.  A file system   *)
(* is a function from the paths that exist to their content.               *)
(***************************************************************************)
EXTENDS Integers, Sequences, FiniteSets, TLC

\* ------------------------------------------------------------------ bounds
MaxCalls == 2
MaxTimeout == 2
MaxDataLen == 2

\* ------------------------------------------------------------------ values
None == "None"
NoTimeout == 0 - 1

HEREDOC_DELIMITER == "EOF_1399519320"

NoOutcome == [kind |-> "none", val |-> None, cmd |-> None, timeout |-> NoTimeout]
Returned(v) == [kind |-> "returned", val |-> v, cmd |-> None, timeout |-> NoTimeout]
Raised(e) == [kind |-> "raised", val |-> e, cmd |-> None, timeout |-> NoTimeout]

\* ------------------------------------------------------------------ paths
MkPath(d, n) == [dir |-> d, name |-> n]

\* os.path.dirname(dst) of a pathlib.Path: "" for a bare file name.
Dirname(p) == p.dir

\* Path.with_suffix: the last suffix is replaced, or the suffix is appended
\* when the name has none.
WithSuffix(p, s) ==
    IF Len(p.name) > 1
    THEN MkPath(p.dir, SubSeq(p.name, 1, Len(p.name) - 1) \o <<s>>)
    ELSE MkPath(p.dir, p.name \o <<s>>)

\* f"{dst}.tar": the text ".tar" appended to the whole destination path.
RemoteTarPath(dst) == MkPath(dst.dir, dst.name \o <<".tar">>)

\* ------------------------------------------------------------------ files
\* the content of a file: plain bytes (a sequence of characters; the empty
\* sequence is the 0-byte file, which is no archive) or a tar archive with
\* its entries
Plain(b) == [kind |-> "plain", bytes |-> b, entries |-> <<>>]
Tar(es) == [kind |-> "tar", bytes |-> <<>>, entries |-> es]
NoContent == [kind |-> "absent", bytes |-> <<>>, entries |-> <<>>]

EmptyFS == [q \in {} |-> NoContent]
Exists(fs, p) == p \in DOMAIN fs
WriteFile(fs, p, c) == [q \in (DOMAIN fs) \cup {p} |-> IF q = p THEN c ELSE fs[q]]
RemoveFile(fs, p) == [q \in (DOMAIN fs) \ {p} |-> fs[q]]
ReadFile(fs, p) == IF Exists(fs, p) THEN fs[p] ELSE NoContent

\* Unpacking an archive into a directory: each entry lands at dir/entry-name.
RECURSIVE ExtractInto(_, _, _)
ExtractInto(fs, d, es) ==
    IF es = <<>> THEN fs
    ELSE ExtractInto(WriteFile(fs, MkPath(d, Head(es).name), Head(es).data), d, Tail(es))

\* ------------------------------------------------------------------ inputs
LocalDir == "/l"
RemoteDir == "/r"
\* a.txt, b and a.tar exist at the start; c.txt does not
SrcNames == {<<"a", ".txt">>, <<"b">>, <<"a", ".tar">>, <<"c", ".txt">>}
DstNames == {<<"a", ".txt">>, <<"b">>}
SrcPaths == {MkPath(LocalDir, n) : n \in SrcNames}
DstPaths == {MkPath(d, n) : d \in {"", RemoteDir}, n \in DstNames}

Cmds == {"ls", "sleep"}
Timeouts == {NoTimeout} \cup (1..MaxTimeout)

\* what the container sends back for a command, and the id of its exec
Output(cmd) == IF cmd = "ls" THEN "out:ls" ELSE "out:sleep"
ExecId(cmd) == IF cmd = "ls" THEN "id:ls" ELSE "id:sleep"

\* text is a sequence of characters; the delimiter token stands as one
Alphabet == {"x", "\n", HEREDOC_DELIMITER}
RECURSIVE TextsUpTo(_)
TextsUpTo(n) ==
    IF n = 0 THEN {<<>>}
    ELSE TextsUpTo(n - 1) \cup
         {Append(t, c) : t \in {u \in TextsUpTo(n - 1) : Len(u) = n - 1}, c \in Alphabet}
Texts == TextsUpTo(MaxDataLen)
WriteDsts == {MkPath(RemoteDir, <<"a", ".txt">>)}

\* container.exec_run(cmd) with a command string: a handle that gives the
\* string to a shell ("sh"), or one that splits it into words and runs the
\* first word with the others as its arguments, with no shell ("argv", what
\* docker-py does with a str)
Handles == {"sh", "argv"}

Images == {"img1", "img2"}
Loggers == {None, "quiet", "sink"}

VARIABLES op, pc, calls, outcome,
          lfs, rdirs, rfs, cp, peer,
          ex, child, unit, remote, clock, sigterm,
          wr, images, stdout, sinklog, rmv

copyVars == <<lfs, rdirs, rfs, cp, peer>>
execVars == <<ex, child, unit, remote, clock, sigterm>>
writeVars == <<wr>>
removeVars == <<images, stdout, sinklog, rmv>>
vars == <<op, pc, calls, outcome, copyVars, execVars, writeVars, removeVars>>

NoCommand == [redirect |-> MkPath("", <<>>), delim |-> None, text |-> <<>>]
IdleWr == [data |-> <<>>, dst |-> MkPath("", <<>>), command |-> NoCommand,
           handle |-> None, written |-> FALSE, readback |-> <<>>, spill |-> FALSE]
IdleRmv == [image_id |-> None, logger |-> None, result |-> None, images0 |-> {}]

\* the three locals of exec_run_with_timeout that run_command rebinds
NoFrame == [exec_result |-> None, exec_id |-> None, exception |-> None]
IdleEx == [cmd |-> None, timeout |-> NoTimeout, frame |-> NoFrame,
           joined |-> None, unitAtCheck |-> None, spawned |-> 0]

IdleCp == [src |-> MkPath("", <<>>), dst |-> MkPath("", <<>>),
           tar_path |-> MkPath("", <<>>), data |-> NoContent,
           src0 |-> NoContent, lfs0 |-> EmptyFS, rfs0 |-> EmptyFS, rdirs0 |-> {},
           handleCalls |-> 0, localWrites |-> 0, failed |-> FALSE,
           linked |-> FALSE, buffer |-> <<>>,
           staged |-> NoContent, delivered |-> {}, trace |-> <<>>]

\* the operations a call has carried out so far, each with the path it names
Traced(c, step, target) ==
    [c EXCEPT !.trace = Append(@, [step |-> step, target |-> target])]

DirPath(d) == MkPath(d, <<>>)

\* a second caller thread, as it stands while the other one runs
IdlePeer == [op |-> "idle", pc |-> "idle", cp |-> IdleCp, rmv |-> IdleRmv,
             outcome |-> NoOutcome]

Init ==
    /\ op = "idle"
    /\ pc = "idle"
    /\ calls = 0
    /\ outcome = NoOutcome
    /\ lfs = (MkPath(LocalDir, <<"a", ".txt">>) :> Plain(<<"x">>))
             @@ (MkPath(LocalDir, <<"b">>) :> Plain(<<"y">>))
             @@ (MkPath(LocalDir, <<"a", ".tar">>) :> Plain(<<"z">>))
    /\ \E e \in {"nodir", "dir", "stale"} :
        /\ rdirs = IF e = "nodir" THEN {"/"} ELSE {"/", RemoteDir}
        /\ rfs = IF e = "stale"
                 THEN (MkPath(RemoteDir, <<"a", ".txt", ".tar">>)
                         :> Tar(<<[name |-> <<"a", ".txt">>, data |-> Plain(<<"old">>)]>>))
                 ELSE EmptyFS
    /\ cp = IdleCp
    /\ peer = IdlePeer
    /\ ex = IdleEx
    /\ child = NoFrame
    /\ unit = "none"
    /\ remote = "none"
    /\ clock = 0
    /\ sigterm = FALSE
    /\ wr = IdleWr
    /\ images = {"img1"}
    /\ stdout = <<>>
    /\ sinklog = <<>>
    /\ rmv = IdleRmv

\* ------------------------------------------------------- copy_to_container
Finish(o) ==
    /\ outcome' = o
    /\ pc' = "done"

CopyCall(src, dst) ==
    /\ op = "idle"
    /\ calls < MaxCalls
    /\ op' = "copy"
    /\ pc' = "check"
    /\ calls' = calls + 1
    /\ outcome' = NoOutcome
    /\ cp' = [IdleCp EXCEPT !.src = src, !.dst = dst,
                            !.src0 = ReadFile(lfs, src),
                            !.lfs0 = lfs, !.rfs0 = rfs, !.rdirs0 = rdirs]
    /\ UNCHANGED <<lfs, rdirs, rfs, peer, execVars, writeVars, removeVars>>

\* a destination check that lets every path through
InvalidDestinationNever(dst) == FALSE

\* line 23: the destination's parent directory component is empty
InvalidDestination(dst) == Dirname(dst) = ""

CopyCheck ==
    /\ op = "copy" /\ pc = "check"
    /\ IF InvalidDestination(cp.dst)
       THEN Finish(Raised("ValueError"))
       ELSE pc' = "tar_open" /\ UNCHANGED outcome
    /\ UNCHANGED <<op, calls, lfs, rdirs, rfs, cp, peer, execVars, writeVars, removeVars>>

\* an archive whose entry is named after the archive, not after the source
TarEntriesArchiveName(fs, src, tar_path) ==
    IF src = tar_path THEN <<>>
    ELSE <<[name |-> tar_path.name, data |-> fs[src]]>>

\* tarfile.open(tar_path, "w") creates or truncates the archive; tar.add
\* skips the archive itself and raises when the source does not exist.
TarEntries(fs, src, tar_path) ==
    IF src = tar_path THEN <<>>
    ELSE <<[name |-> src.name, data |-> fs[src]]>>

\* lines 29-30: tarfile.open(tar_path, "w") creates the file or cuts an
\* existing one down to 0 bytes; the handle it returns stays on that file
\* (cp.linked) until another thread unlinks the path
CopyTarOpen ==
    /\ op = "copy" /\ pc = "tar_open"
    /\ LET tp == WithSuffix(cp.src, ".tar") IN
       \E fault \in BOOLEAN :
         IF fault
         THEN /\ Finish(Raised("OSError"))
              /\ cp' = [cp EXCEPT !.tar_path = tp, !.failed = TRUE]
              /\ UNCHANGED lfs
         ELSE /\ lfs' = WriteFile(lfs, tp, Plain(<<>>))
              /\ cp' = [cp EXCEPT !.tar_path = tp, !.linked = TRUE,
                                  !.localWrites = @ + 1]
              /\ pc' = "tar_add"
              /\ UNCHANGED outcome
    /\ UNCHANGED <<op, calls, rdirs, rfs, peer, execVars, writeVars, removeVars>>

\* line 31: tar.add(src, arcname=src.name).  The header and the data of a
\* small file stay in the writer's buffer: nothing reaches the disk yet.  A
\* missing source raises; the with block then closes the file as it is,
\* 0 bytes long.
CopyTarAdd ==
    /\ op = "copy" /\ pc = "tar_add"
    /\ IF cp.src # cp.tar_path /\ ~Exists(lfs, cp.src)
       THEN /\ Finish(Raised("FileNotFoundError"))
            /\ cp' = [cp EXCEPT !.failed = TRUE, !.linked = FALSE]
       ELSE /\ cp' = [cp EXCEPT !.buffer = TarEntries(lfs, cp.src, cp.tar_path)]
            /\ pc' = "tar_flush"
            /\ UNCHANGED outcome
    /\ UNCHANGED <<op, calls, lfs, rdirs, rfs, peer, execVars, writeVars, removeVars>>

\* end of the with block of lines 30-31: the archive is closed, which hands
\* it to the file in two writes.  The first, from offset 0 of the opened
\* file, is the buffered entries and the first end-of-archive blocks: the
\* file then reads as the archive.  When the path has been unlinked
\* meanwhile the bytes go to a file that has no name any more.
CopyTarFlush ==
    /\ op = "copy" /\ pc = "tar_flush"
    /\ lfs' = IF cp.linked THEN WriteFile(lfs, cp.tar_path, Tar(cp.buffer)) ELSE lfs
    /\ pc' = "tar_close"
    /\ UNCHANGED <<op, calls, outcome, rdirs, rfs, cp, peer, execVars, writeVars, removeVars>>

\* what the second write of the close leaves in the file: zero bytes from
\* where the first write ended up to the full record.  After an archive they
\* change nothing; in a file cut down to 0 bytes meanwhile they make a file
\* of zero bytes only, which is the archive without entries.
Padded(c) == IF c.kind = "tar" THEN c ELSE Tar(<<>>)

\* the second write, after which the file is closed
CopyTarClose ==
    /\ op = "copy" /\ pc = "tar_close"
    /\ lfs' = IF cp.linked
              THEN WriteFile(lfs, cp.tar_path, Padded(ReadFile(lfs, cp.tar_path)))
              ELSE lfs
    /\ cp' = Traced([cp EXCEPT !.staged = Tar(cp.buffer), !.linked = FALSE],
                    "tar_write", cp.tar_path)
    /\ pc' = "tar_read"
    /\ UNCHANGED <<op, calls, outcome, rdirs, rfs, peer, execVars, writeVars, removeVars>>

\* lines 34-35: the bytes now at tar_path are read back into memory, whatever
\* they are.  (Open and read are one step: the bytes read are those of the
\* opened file at the time of the read, and between the two another call can
\* only do what it could do before the open or after the read.)
CopyTarRead ==
    /\ op = "copy" /\ pc = "tar_read"
    /\ IF Exists(lfs, cp.tar_path)
       THEN /\ cp' = Traced([cp EXCEPT !.data = lfs[cp.tar_path]],
                            "tar_read", cp.tar_path)
            /\ pc' = "mkdir"
            /\ UNCHANGED outcome
       ELSE /\ cp' = [cp EXCEPT !.failed = TRUE]
            /\ Finish(Raised("FileNotFoundError"))
    /\ UNCHANGED <<op, calls, lfs, rdirs, rfs, peer, execVars, writeVars, removeVars>>

\* line 38: container.exec_run(f"mkdir -p {dst.parent}").  exec_run raises
\* on an API error and otherwise returns (exit_code, output), which the
\* code does not look at.
CopyMkdir ==
    /\ op = "copy" /\ pc = "mkdir"
    /\ \E r \in {"ok", "exit1", "raise"} :
         CASE r = "raise" ->
                /\ cp' = [cp EXCEPT !.handleCalls = @ + 1, !.failed = TRUE]
                /\ Finish(Raised("APIError"))
                /\ UNCHANGED rdirs
           [] r = "exit1" ->
                /\ cp' = Traced([cp EXCEPT !.handleCalls = @ + 1, !.failed = TRUE],
                                "mkdir", DirPath(cp.dst.dir))
                /\ pc' = "put_archive"
                /\ UNCHANGED <<outcome, rdirs>>
           [] r = "ok" ->
                /\ cp' = Traced([cp EXCEPT !.handleCalls = @ + 1],
                                "mkdir", DirPath(cp.dst.dir))
                /\ rdirs' = rdirs \cup {cp.dst.dir}
                /\ pc' = "put_archive"
                /\ UNCHANGED outcome
    /\ UNCHANGED <<op, calls, lfs, rfs, peer, execVars, writeVars, removeVars>>

\* the paths at which the entries of an archive land when it is unpacked
Delivered(d, es) == {MkPath(d, es[i].name) : i \in 1..Len(es)}

\* line 41: container.put_archive(os.path.dirname(dst), data): the handle
\* unpacks the archive at the directory, which must exist.  Data that is no
\* archive (0 bytes) has no entry to unpack; the handle may also refuse it,
\* which is the failing answer.
CopyPutArchive ==
    /\ op = "copy" /\ pc = "put_archive"
    /\ \E fault \in BOOLEAN :
         IF fault \/ Dirname(cp.dst) \notin rdirs
         THEN /\ cp' = [cp EXCEPT !.handleCalls = @ + 1, !.failed = TRUE]
              /\ Finish(Raised(IF fault THEN "APIError" ELSE "NotFound"))
              /\ UNCHANGED rfs
         ELSE /\ cp' = Traced([cp EXCEPT !.handleCalls = @ + 1,
                                         !.delivered = Delivered(Dirname(cp.dst),
                                                                 cp.data.entries)],
                              "put_archive", DirPath(Dirname(cp.dst)))
              /\ rfs' = ExtractInto(rfs, Dirname(cp.dst), cp.data.entries)
              /\ pc' = "extract"
              /\ UNCHANGED outcome
    /\ UNCHANGED <<op, calls, lfs, rdirs, peer, execVars, writeVars, removeVars>>

\* line 42: container.exec_run(f"tar -xf {dst}.tar -C {dst.parent}"): tar
\* exits with a failing status when {dst}.tar is no archive in the container.
CopyExtract ==
    /\ op = "copy" /\ pc = "extract"
    /\ LET rt == RemoteTarPath(cp.dst) IN
       \E fault \in BOOLEAN :
         IF fault
         THEN /\ cp' = [cp EXCEPT !.handleCalls = @ + 1, !.failed = TRUE]
              /\ Finish(Raised("APIError"))
              /\ UNCHANGED rfs
         ELSE IF Exists(rfs, rt) /\ rfs[rt].kind = "tar"
         THEN /\ cp' = Traced([cp EXCEPT !.handleCalls = @ + 1], "extract", rt)
              /\ rfs' = ExtractInto(rfs, cp.dst.dir, rfs[rt].entries)
              /\ pc' = "unlink"
              /\ UNCHANGED outcome
         ELSE /\ cp' = Traced([cp EXCEPT !.handleCalls = @ + 1, !.failed = TRUE],
                              "extract", rt)
              /\ pc' = "unlink"
              /\ UNCHANGED <<outcome, rfs>>
    /\ UNCHANGED <<op, calls, lfs, rdirs, peer, execVars, writeVars, removeVars>>

\* line 45: tar_path.unlink(): the name is removed; a handle another thread
\* still has open on the file is left without a name
CopyUnlink ==
    /\ op = "copy" /\ pc = "unlink"
    /\ \E fault \in BOOLEAN :
         IF fault \/ ~Exists(lfs, cp.tar_path)
         THEN /\ cp' = [cp EXCEPT !.failed = TRUE]
              /\ Finish(Raised(IF fault THEN "OSError" ELSE "FileNotFoundError"))
              /\ UNCHANGED <<lfs, peer>>
         ELSE /\ lfs' = RemoveFile(lfs, cp.tar_path)
              /\ cp' = Traced([cp EXCEPT !.localWrites = @ + 1], "unlink", cp.tar_path)
              /\ peer' = IF peer.cp.linked /\ peer.cp.tar_path = cp.tar_path
                         THEN [peer EXCEPT !.cp.linked = FALSE]
                         ELSE peer
              /\ pc' = "rm"
              /\ UNCHANGED outcome
    /\ UNCHANGED <<op, calls, rdirs, rfs, execVars, writeVars, removeVars>>

\* line 46: container.exec_run(f"rm {dst}.tar"), then the implicit return
CopyRm ==
    /\ op = "copy" /\ pc = "rm"
    /\ LET rt == RemoteTarPath(cp.dst) IN
       \E r \in {"run", "exit1", "raise"} :
         CASE r = "raise" ->
                /\ cp' = [cp EXCEPT !.handleCalls = @ + 1, !.failed = TRUE]
                /\ Finish(Raised("APIError"))
                /\ UNCHANGED rfs
           [] r = "run" /\ Exists(rfs, rt) ->
                /\ cp' = Traced([cp EXCEPT !.handleCalls = @ + 1], "rm", rt)
                /\ rfs' = RemoveFile(rfs, rt)
                /\ Finish(Returned(None))
           [] OTHER ->
                /\ cp' = Traced([cp EXCEPT !.handleCalls = @ + 1, !.failed = TRUE], "rm", rt)
                /\ Finish(Returned(None))
                /\ UNCHANGED rfs
    /\ UNCHANGED <<op, calls, lfs, rdirs, peer, execVars, writeVars, removeVars>>

\* --------------------------------------------------- exec_run_with_timeout
\* lines 101-104
ExecCall(cmd, timeout) ==
    /\ op = "idle"
    /\ calls < MaxCalls
    /\ op' = "exec"
    /\ pc' = "spawn"
    /\ calls' = calls + 1
    /\ outcome' = NoOutcome
    /\ ex' = [IdleEx EXCEPT !.cmd = cmd, !.timeout = timeout]
    /\ child' = NoFrame
    /\ unit' = "none"
    /\ remote' = "none"
    /\ clock' = 0
    /\ sigterm' = FALSE
    /\ UNCHANGED <<copyVars, writeVars, removeVars>>

\* lines 116-117: multiprocessing.Process(target=run_command).start().
\* The new process starts from a copy of the caller's memory: the cells
\* behind exec_result, exec_id and exception are duplicated, not shared.
ForkFrame(frame) == frame

ExecSpawn ==
    /\ op = "exec" /\ pc = "spawn"
    /\ child' = ForkFrame(ex.frame)
    /\ unit' = "create"
    /\ clock' = 0
    /\ pc' = "join"
    /\ ex' = [ex EXCEPT !.spawned = @ + 1]
    /\ UNCHANGED <<op, calls, outcome, copyVars, writeVars, removeVars, remote, sigterm>>

\* process.is_alive(): the unit has neither exited nor been killed
IsAlive(u) == u \in {"create", "start", "blocked"}

\* line 110, in the unit: exec_create(container.id, cmd)["Id"]
UnitExecCreate ==
    /\ op = "exec" /\ unit = "create"
    /\ \E fault \in BOOLEAN :
         IF fault
         THEN /\ child' = [child EXCEPT !.exception = "APIError:create"]
              /\ unit' = "finished"
         ELSE /\ child' = [child EXCEPT !.exec_id = ExecId(ex.cmd)]
              /\ unit' = "start"
    /\ UNCHANGED <<op, pc, calls, outcome, copyVars, writeVars, removeVars, ex, remote, clock, sigterm>>

\* line 111, in the unit: exec_start(exec_id) is sent and the command
\* begins to run in the container; the unit blocks for its output.
UnitExecStart ==
    /\ op = "exec" /\ unit = "start"
    /\ \E fault \in BOOLEAN :
         IF fault
         THEN /\ child' = [child EXCEPT !.exception = "APIError:start"]
              /\ unit' = "finished"
              /\ UNCHANGED remote
         ELSE /\ remote' = "running"
              /\ unit' = "blocked"
              /\ UNCHANGED child
    /\ UNCHANGED <<op, pc, calls, outcome, copyVars, writeVars, removeVars, ex, clock, sigterm>>

\* the command in the container runs to its end (it need not ever do so)
RemoteExit ==
    /\ op = "exec" /\ remote = "running"
    /\ remote' = "exited"
    /\ UNCHANGED <<op, pc, calls, outcome, copyVars, writeVars, removeVars, ex, child, unit, clock, sigterm>>

\* line 111, in the unit: exec_start returns the output, or the connection
\* fails while the unit waits (lines 112-113)
UnitExecReturn ==
    /\ op = "exec" /\ unit = "blocked"
    /\ \E fault \in BOOLEAN :
         IF fault
         THEN child' = [child EXCEPT !.exception = "APIError:start"]
         ELSE /\ remote = "exited"
              /\ child' = [child EXCEPT !.exec_result = Output(ex.cmd)]
    /\ unit' = "finished"
    /\ UNCHANGED <<op, pc, calls, outcome, copyVars, writeVars, removeVars, ex, remote, clock, sigterm>>

\* SIGTERM, once sent by process.terminate(), ends the unit
UnitDie ==
    /\ op = "exec" /\ sigterm /\ IsAlive(unit)
    /\ unit' = "killed"
    /\ UNCHANGED <<op, pc, calls, outcome, copyVars, writeVars, removeVars, ex, child, remote, clock, sigterm>>

\* wall-clock time passes while the caller is inside process.join(timeout)
Tick ==
    /\ op = "exec" /\ pc = "join"
    /\ ex.timeout # NoTimeout /\ clock < ex.timeout
    /\ clock' = clock + 1
    /\ UNCHANGED <<op, pc, calls, outcome, copyVars, writeVars, removeVars, ex, child, unit, remote, sigterm>>

\* a join that ignores its timeout argument
JoinReturnsNoDeadline(u, t, timeout) == ~IsAlive(u)

\* a join that takes the absent timeout for a number of seconds
JoinReturnsSentinelAsNumber(u, t, timeout) ==
    \/ ~IsAlive(u)
    \/ t >= timeout

\* line 118: process.join(timeout) returns once the unit has exited or,
\* with a timeout, once that many seconds have passed
JoinReturns(u, t, timeout) ==
    \/ ~IsAlive(u)
    \/ timeout # NoTimeout /\ t >= timeout

ExecJoin ==
    /\ op = "exec" /\ pc = "join"
    /\ JoinReturns(unit, clock, ex.timeout)
    /\ ex' = [ex EXCEPT !.joined = IF unit \in {"finished", "killed"}
                                   THEN "exit" ELSE "deadline"]
    /\ pc' = "check"
    /\ UNCHANGED <<op, calls, outcome, copyVars, writeVars, removeVars, child, unit, remote, clock, sigterm>>

\* a timeout failure that forgets the deadline it reports
TimeoutErrorNoDeadline(cmd, timeout) ==
    [kind |-> "raised", val |-> "TimeoutError", cmd |-> cmd, timeout |-> NoTimeout]

\* line 122: TimeoutError(f"Command '{cmd}' timed out after {timeout} seconds")
TimeoutError(cmd, timeout) ==
    [kind |-> "raised", val |-> "TimeoutError", cmd |-> cmd, timeout |-> timeout]

\* lines 124-127: what the caller's own frame yields
FrameOutcome(frame) ==
    IF frame.exception # None THEN Raised(frame.exception)
    ELSE Returned(frame.exec_result)

\* a timeout path that also stops the command in the container
RemoteAfterTerminateKills(r) == IF r = "running" THEN "killed" ELSE r

\* lines 121-122: process.terminate() signals the local process and the
\* error is raised; nothing is sent to the container, whose exec is left
\* as it is
RemoteAfterTerminate(r) == r

\* lines 120-127
ExecCheck ==
    /\ op = "exec" /\ pc = "check"
    /\ IF IsAlive(unit)
       THEN /\ sigterm' = TRUE
            /\ remote' = RemoteAfterTerminate(remote)
            /\ Finish(TimeoutError(ex.cmd, ex.timeout))
       ELSE /\ Finish(FrameOutcome(ex.frame))
            /\ UNCHANGED <<sigterm, remote>>
    /\ ex' = [ex EXCEPT !.unitAtCheck = unit]
    /\ UNCHANGED <<op, calls, copyVars, writeVars, removeVars, child, unit, clock>>

\* ------------------------------------------------------ write_to_container
\* line 54: f"cat <<'{HEREDOC_DELIMITER}' > {dst}\n{data}\n{HEREDOC_DELIMITER}".
\* The first line is kept as its parts, the rest as the characters after it.
Command(data, dst) ==
    [redirect |-> dst, delim |-> HEREDOC_DELIMITER,
     text |-> data \o <<"\n", HEREDOC_DELIMITER>>]

\* the lines of a text: n line breaks separate n + 1 lines
RECURSIVE SplitLines(_)
SplitLines(t) ==
    IF \A i \in 1..Len(t) : t[i] # "\n" THEN <<t>>
    ELSE LET k == CHOOSE i \in 1..Len(t) :
                    t[i] = "\n" /\ \A j \in 1..(i - 1) : t[j] # "\n"
         IN <<SubSeq(t, 1, k - 1)>> \o SplitLines(SubSeq(t, k + 1, Len(t)))

\* each line followed by a line break
RECURSIVE JoinLines(_)
JoinLines(ls) ==
    IF ls = <<>> THEN <<>>
    ELSE Head(ls) \o <<"\n">> \o JoinLines(Tail(ls))

\* The shell's reading of a here-document with a quoted delimiter: the body
\* is every line up to the first line that is exactly the delimiter, taken
\* literally; the lines after that one are further shell input.
HereDoc(command) ==
    LET ls == SplitLines(command.text)
        ends == {i \in 1..Len(ls) : ls[i] = <<command.delim>>}
        e == IF ends = {} THEN Len(ls) + 1
             ELSE CHOOSE i \in ends : \A j \in ends : i <= j
    IN [body |-> JoinLines(SubSeq(ls, 1, e - 1)),
        rest |-> SubSeq(ls, e + 1, Len(ls))]

\* the delimiter token is one whole line of the text
HasDelimiterLine(data) ==
    \E i \in 1..Len(SplitLines(data)) : SplitLines(data)[i] = <<HEREDOC_DELIMITER>>

\* lines 54-55: the command is built and handed to container.exec_run, whose
\* result is not looked at.  Under a shell, cat copies the here-document into
\* dst, which the redirection creates or cuts down first, when the shell can
\* open it; when it cannot, cat is not run, and either way the shell goes on
\* to read the lines after the here-document as commands.  Without a shell
\* cat is run with the words of the command as the names of files to print,
\* "<<" + delimiter among them: it ends with a failing status and no file is
\* written.
WriteToContainer(data, dst) ==
    /\ op = "idle"
    /\ calls < MaxCalls
    /\ op' = "write"
    /\ calls' = calls + 1
    /\ LET command == Command(data, dst)
           hd == HereDoc(command)
       IN \E fault \in BOOLEAN, h \in Handles :
            IF fault
            THEN /\ wr' = [IdleWr EXCEPT !.data = data, !.dst = dst,
                                         !.command = command, !.handle = h,
                                         !.readback = ReadFile(rfs, dst).bytes]
                 /\ Finish(Raised("APIError"))
                 /\ UNCHANGED rfs
            ELSE IF h = "sh" /\ Dirname(dst) \in rdirs
            THEN /\ rfs' = WriteFile(rfs, dst, Plain(hd.body))
                 /\ wr' = [IdleWr EXCEPT !.data = data, !.dst = dst,
                                         !.command = command, !.handle = h,
                                         !.written = TRUE,
                                         !.readback = hd.body,
                                         !.spill = hd.rest # <<>>]
                 /\ Finish(Returned(None))
            ELSE /\ wr' = [IdleWr EXCEPT !.data = data, !.dst = dst,
                                         !.command = command, !.handle = h,
                                         !.readback = ReadFile(rfs, dst).bytes,
                                         !.spill = (h = "sh" /\ hd.rest # <<>>)]
                 /\ Finish(Returned(None))
                 /\ UNCHANGED rfs
    /\ UNCHANGED <<lfs, rdirs, cp, peer, execVars, removeVars>>

\* ------------------------------------------------------------ remove_image
\* a quiet mode that also swallows failures
ReportModeQuietSwallows(logger) ==
    IF logger = None
    THEN [info |-> "stdout", error |-> "stdout", raise_error |-> TRUE]
    ELSE IF logger = "quiet"
    THEN [info |-> "null", error |-> "null", raise_error |-> FALSE]
    ELSE [info |-> "sink", error |-> "sink", raise_error |-> FALSE]

\* lines 68-82: where messages go and whether a failure is raised
ReportMode(logger) ==
    IF logger = None
    THEN [info |-> "stdout", error |-> "stdout", raise_error |-> TRUE]
    ELSE IF logger = "quiet"
    THEN [info |-> "null", error |-> "null", raise_error |-> TRUE]
    ELSE [info |-> "sink", error |-> "sink", raise_error |-> FALSE]

Msg(text, image_id) == [text |-> text, image |-> image_id]

Emit(log, target, here, m) == IF target = here THEN Append(log, m) ELSE log

\* client.images.remove(image_id, force=True), as the client can answer
ClientAnswers(imgs, image_id) ==
    IF image_id \in imgs THEN {"removed", "APIError"}
    ELSE {"ImageNotFound", "APIError"}

\* line 84: the message sent before the client is asked
AttemptMessage(mode, image_id) ==
    <<[to |-> mode.info, m |-> Msg("attempt", image_id)]>>

\* lines 86, 88, 90-94: the messages sent once the client has answered
ResultMessages(mode, image_id, r) ==
    CASE r = "removed" -> <<[to |-> mode.info, m |-> Msg("removed", image_id)]>>
      [] r = "ImageNotFound" -> <<[to |-> mode.info, m |-> Msg("notfound", image_id)]>>
      [] OTHER ->
           IF mode.raise_error THEN <<>>
           ELSE <<[to |-> mode.error, m |-> Msg("failed", image_id)]>>

\* a handler without the ImageNotFound clause of line 87
RemoveOutcomeNotFoundRaises(mode, r) ==
    IF r = "removed" THEN Returned(None)
    ELSE IF mode.raise_error THEN Raised(r)
    ELSE Returned(None)

\* lines 87-94: what the call hands back for a client answer
RemoveOutcome(mode, r) ==
    IF r \in {"removed", "ImageNotFound"} THEN Returned(None)
    ELSE IF mode.raise_error THEN Raised(r)
    ELSE Returned(None)

RECURSIVE Deliver(_, _, _)
Deliver(log, here, ms) ==
    IF ms = <<>> THEN log
    ELSE Deliver(Emit(log, Head(ms).to, here, Head(ms).m), here, Tail(ms))

\* lines 58-84: the call is entered, the mode is chosen and the attempt is
\* reported
RemoveCall(image_id, logger) ==
    /\ op = "idle"
    /\ calls < MaxCalls
    /\ op' = "remove"
    /\ pc' = "request"
    /\ calls' = calls + 1
    /\ outcome' = NoOutcome
    /\ LET ms == AttemptMessage(ReportMode(logger), image_id)
       IN /\ stdout' = Deliver(stdout, "stdout", ms)
          /\ sinklog' = Deliver(sinklog, "sink", ms)
    /\ rmv' = [image_id |-> image_id, logger |-> logger, result |-> None,
               images0 |-> images]
    /\ UNCHANGED <<images, copyVars, execVars, writeVars>>

\* line 85: client.images.remove(image_id, force=True) is answered, on the
\* images the client has at that time
RemoveRequest ==
    /\ op = "remove" /\ pc = "request"
    /\ \E r \in ClientAnswers(images, rmv.image_id) :
         /\ images' = IF r = "removed" THEN images \ {rmv.image_id} ELSE images
         /\ rmv' = [rmv EXCEPT !.result = r]
    /\ pc' = "report"
    /\ UNCHANGED <<op, calls, outcome, stdout, sinklog, copyVars, execVars, writeVars>>

\* lines 86-94: the answer is reported and the call returns or raises
RemoveReport ==
    /\ op = "remove" /\ pc = "report"
    /\ LET mode == ReportMode(rmv.logger)
           ms == ResultMessages(mode, rmv.image_id, rmv.result)
       IN /\ stdout' = Deliver(stdout, "stdout", ms)
          /\ sinklog' = Deliver(sinklog, "sink", ms)
          /\ Finish(RemoveOutcome(mode, rmv.result))
    /\ UNCHANGED <<op, calls, images, rmv, copyVars, execVars, writeVars>>

\* the caller takes the outcome and is free to make its next call; the
\* frames of the finished call are gone
CallerResume ==
    /\ op # "idle" /\ pc = "done"
    /\ calls < MaxCalls
    /\ op' = "idle"
    /\ pc' = "idle"
    /\ cp' = IdleCp
    /\ ex' = IdleEx
    /\ child' = NoFrame
    /\ unit' = "none"
    /\ remote' = "none"
    /\ clock' = 0
    /\ sigterm' = FALSE
    /\ wr' = IdleWr
    /\ stdout' = <<>>
    /\ sinklog' = <<>>
    /\ rmv' = IdleRmv
    /\ UNCHANGED <<calls, outcome, lfs, rdirs, rfs, peer, images>>

Next ==
    \/ \E s \in SrcPaths, d \in DstPaths : CopyCall(s, d)
    \/ CopyCheck
    \/ CopyTarOpen
    \/ CopyTarAdd
    \/ CopyTarFlush
    \/ CopyTarClose
    \/ CopyTarRead
    \/ CopyMkdir
    \/ CopyPutArchive
    \/ CopyExtract
    \/ CopyUnlink
    \/ CopyRm
    \/ \E c \in Cmds, t \in Timeouts : ExecCall(c, t)
    \/ ExecSpawn
    \/ UnitExecCreate
    \/ UnitExecStart
    \/ RemoteExit
    \/ UnitExecReturn
    \/ UnitDie
    \/ Tick
    \/ ExecJoin
    \/ ExecCheck
    \/ \E t \in Texts, d \in WriteDsts : WriteToContainer(t, d)
    \/ \E i \in Images, l \in Loggers : RemoveCall(i, l)
    \/ RemoveRequest
    \/ RemoveReport
    \/ CallerResume

Spec == Init /\ [][Next]_vars

\* ------------------------------------------------------- two caller threads
\* Two threads of the caller each make one call, of copy_to_container or of
\* remove_image, on the same local directory, container, client, standard
\* output and sink.  One thread runs at a time; the scheduler may switch to
\* the other between any two steps.
ConcSrcNames == {<<"a", ".txt">>, <<"a", ".py">>, <<"b">>}
ConcSrcPaths == {MkPath(LocalDir, n) : n \in ConcSrcNames}
ConcDstPaths == {MkPath(RemoteDir, n) : n \in DstNames}

ConcInit ==
    /\ op = "idle"
    /\ pc = "idle"
    /\ calls = 0
    /\ outcome = NoOutcome
    /\ lfs = (MkPath(LocalDir, <<"a", ".txt">>) :> Plain(<<"x">>))
             @@ (MkPath(LocalDir, <<"a", ".py">>) :> Plain(<<"p">>))
             @@ (MkPath(LocalDir, <<"b">>) :> Plain(<<"y">>))
    /\ \E e \in {"nodir", "dir"} :
        rdirs = IF e = "nodir" THEN {"/"} ELSE {"/", RemoteDir}
    /\ rfs = EmptyFS
    /\ cp = IdleCp
    /\ peer = IdlePeer
    /\ ex = IdleEx
    /\ child = NoFrame
    /\ unit = "none"
    /\ remote = "none"
    /\ clock = 0
    /\ sigterm = FALSE
    /\ wr = IdleWr
    /\ images = {"img1"}
    /\ stdout = <<>>
    /\ sinklog = <<>>
    /\ rmv = IdleRmv

Switch ==
    /\ peer.pc # "done"
    /\ op # "idle" \/ peer.op # "idle"
    /\ op' = peer.op
    /\ pc' = peer.pc
    /\ cp' = peer.cp
    /\ rmv' = peer.rmv
    /\ outcome' = peer.outcome
    /\ peer' = [op |-> op, pc |-> pc, cp |-> cp, rmv |-> rmv, outcome |-> outcome]
    /\ UNCHANGED <<calls, lfs, rdirs, rfs, execVars, writeVars, images, stdout, sinklog>>

ConcNext ==
    \/ \E s \in ConcSrcPaths, d \in ConcDstPaths : CopyCall(s, d)
    \/ CopyCheck
    \/ CopyTarOpen
    \/ CopyTarAdd
    \/ CopyTarFlush
    \/ CopyTarClose
    \/ CopyTarRead
    \/ CopyMkdir
    \/ CopyPutArchive
    \/ CopyExtract
    \/ CopyUnlink
    \/ CopyRm
    \/ \E i \in Images, l \in Loggers : RemoveCall(i, l)
    \/ RemoveRequest
    \/ RemoveReport
    \/ Switch

ConcSpec == ConcInit /\ [][ConcNext]_vars

\* The caller's own steps of exec_run_with_timeout are taken and time passes
\* while it waits in join; nothing obliges the unit or the command in the
\* container to make progress.
FairSpec ==
    /\ Spec
    /\ WF_vars(ExecSpawn)
    /\ WF_vars(Tick)
    /\ WF_vars(ExecJoin)
    /\ WF_vars(ExecCheck)

\* ------------------------------------------------------------------ claims
ExecDone == op = "exec" /\ pc = "done"
CopyDone == op = "copy" /\ pc = "done"
WriteDone == op = "write" /\ pc = "done"
RemoveDone == op = "remove" /\ pc = "done"

\* C1: when the unit has finished before the deadline without an error, the
\* call returns the output the unit captured from the exec call.
C1_ReturnsCapturedOutput ==
    (ExecDone /\ ex.joined = "exit" /\ unit = "finished" /\ child.exception = None)
        => outcome = Returned(child.exec_result)

\* C2: when the exec call fails inside the unit before the deadline, the
\* call raises that same error and does not return a value.
C2_ReraisesUnitError ==
    (ExecDone /\ ex.joined = "exit" /\ unit = "finished" /\ child.exception # None)
        => outcome = Raised(child.exception)

\* C3 as stated: the call raises the timeout failure, carrying the command
\* and the deadline, with the unit terminated, exactly when the unit was
\* still active as the deadline elapsed.
C3_TimeoutIffActiveAtDeadline ==
    ExecDone =>
        /\ (ex.joined = "deadline") <=> (outcome = TimeoutError(ex.cmd, ex.timeout))
        /\ (ex.joined = "deadline") <=> sigterm
        /\ outcome.val = "TimeoutError" => outcome = TimeoutError(ex.cmd, ex.timeout)

\* C3 amended: the call raises the timeout failure, carrying the command and
\* the deadline, with the unit terminated, exactly when the unit is still
\* alive at the liveness test made after the bounded join has returned; a
\* timeout failure is raised only after the deadline has elapsed.
C3_TimeoutIffAliveAtCheck ==
    ExecDone =>
        /\ (ex.unitAtCheck \in {"create", "start", "blocked"})
               <=> (outcome = [kind |-> "raised", val |-> "TimeoutError",
                               cmd |-> ex.cmd, timeout |-> ex.timeout])
        /\ (ex.unitAtCheck \in {"create", "start", "blocked"}) <=> sigterm
        /\ outcome.val = "TimeoutError" =>
               /\ outcome.cmd = ex.cmd /\ outcome.timeout = ex.timeout
               /\ ex.timeout # NoTimeout /\ clock >= ex.timeout
               /\ ex.joined = "deadline"

C3_Witness ==
    /\ ExecDone /\ ex.unitAtCheck = "blocked" /\ remote = "running"
    /\ outcome.val = "TimeoutError" /\ outcome.timeout = MaxTimeout /\ sigterm

\* C4: with a finite deadline every call comes back to the caller, returning
\* or raising, even when the command in the container never ends.
C4_CallComesBack ==
    (op = "exec" /\ ex.timeout # NoTimeout) ~> ExecDone

C4_Witness ==
    /\ ExecDone /\ ex.timeout # NoTimeout /\ remote = "running"
    /\ outcome.kind = "raised"

\* C5 as stated: for every source and every destination with a parent
\* directory, a call that returns leaves the source's content at dst and no
\* staging archive, local or remote.
C5_DeliversForAllPairs ==
    (CopyDone /\ outcome.kind = "returned") =>
        /\ Exists(rfs, cp.dst) /\ rfs[cp.dst] = cp.src0
        /\ ~Exists(lfs, cp.tar_path)
        /\ ~Exists(rfs, RemoteTarPath(cp.dst))

\* C5 amended: the same, for a source whose base name is that of dst and
\* whose suffix is not ".tar", when no file is at dst + ".tar" in the
\* container before the call.
C5_DeliversWhenNamesAgree ==
    (/\ CopyDone /\ outcome.kind = "returned"
     /\ cp.src.name = cp.dst.name
     /\ cp.src.name[Len(cp.src.name)] # ".tar"
     /\ ~Exists(cp.rfs0, RemoteTarPath(cp.dst))) =>
        /\ Exists(rfs, cp.dst) /\ rfs[cp.dst] = cp.src0
        /\ cp.src0.kind # "absent"
        /\ ~Exists(lfs, cp.tar_path)
        /\ ~Exists(rfs, RemoteTarPath(cp.dst))

C5_Witness ==
    /\ CopyDone /\ outcome.kind = "returned"
    /\ cp.src.name = cp.dst.name /\ cp.src.name = <<"a", ".txt">>
    /\ ~Exists(cp.rfs0, RemoteTarPath(cp.dst))
    /\ Exists(rfs, cp.dst) /\ rfs[cp.dst] = Plain(<<"x">>)
    /\ RemoteDir \notin cp.rdirs0

\* C6: a destination with an empty parent directory fails with the invalid
\* destination error before any I/O: no call on the handle, no local file
\* created, nothing changed locally or in the container.
C6_BareNameRejectedFirst ==
    (CopyDone /\ cp.dst.dir = "") =>
        /\ outcome = Raised("ValueError")
        /\ cp.handleCalls = 0 /\ cp.localWrites = 0
        /\ lfs = cp.lfs0 /\ rfs = cp.rfs0 /\ rdirs = cp.rdirs0

C6_Witness ==
    /\ CopyDone /\ cp.dst.dir = "" /\ outcome = Raised("ValueError")
    /\ cp.handleCalls = 0

\* C7: a call in which a step has failed, a remote command ending with a
\* failing exit status included, never returns normally.
C7_FailedStepPropagates ==
    (CopyDone /\ cp.failed) => outcome.kind = "raised"

\* C8: when the client reports the image as not found, the call returns
\* normally in each of the three modes and removes nothing.
C8_NotFoundIsNoOp ==
    (RemoveDone /\ rmv.result = "ImageNotFound") =>
        /\ outcome = Returned(None)
        /\ images = rmv.images0

C8_Witness ==
    /\ RemoveDone /\ rmv.result = "ImageNotFound" /\ rmv.logger = "quiet"
    /\ rmv.image_id \notin rmv.images0
    /\ outcome = Returned(None) /\ stdout = <<>> /\ sinklog = <<>>

\* C9: when the removal fails with another error, the call raises that error
\* in default and in quiet mode; in sink mode it logs the failure to the sink
\* and returns normally.
C9_OtherFailureByMode ==
    (RemoveDone /\ rmv.result \notin {"removed", "ImageNotFound"}) =>
        /\ rmv.logger \in {None, "quiet"} => outcome = Raised(rmv.result)
        /\ rmv.logger = "sink" =>
              /\ outcome = Returned(None)
              /\ sinklog # <<>>
              /\ sinklog[Len(sinklog)] = Msg("failed", rmv.image_id)

C9_Witness ==
    /\ RemoveDone /\ rmv.result = "APIError" /\ rmv.logger = "sink"
    /\ outcome = Returned(None) /\ Len(sinklog) = 2

\* C10: for content without the delimiter token as a line of its own, a call
\* that returns, with the destination's directory in place, leaves at the
\* destination a file whose content read back is the content given, nothing
\* added and nothing lost.
C10_ReadBackIsContent ==
    (/\ WriteDone /\ outcome.kind = "returned"
     /\ Dirname(wr.dst) \in rdirs /\ ~HasDelimiterLine(wr.data)) =>
        /\ Exists(rfs, wr.dst)
        /\ rfs[wr.dst] = Plain(wr.data)
        /\ wr.readback = wr.data

\* C11: with the absent timeout no deadline applies: the call raises no
\* timeout failure, never terminates the unit, and goes past join only once
\* the unit has finished on its own.
C11_NoTimeoutWaitsForUnit ==
    (op = "exec" /\ ex.timeout = NoTimeout) =>
        /\ ~sigterm /\ unit # "killed"
        /\ outcome.val # "TimeoutError"
        /\ pc \in {"check", "done"} => unit = "finished"
        /\ pc = "done" => ex.joined = "exit"

C11_Witness ==
    /\ ExecDone /\ ex.timeout = NoTimeout /\ unit = "finished"
    /\ remote = "exited" /\ outcome.kind = "returned"

\* C13: in default mode a failure other than "image not found" is printed to
\* standard output before it is raised to the caller.
C13_DefaultPrintsThenRaises ==
    (RemoveDone /\ rmv.logger = None /\ rmv.result \notin {"removed", "ImageNotFound"}) =>
        /\ outcome = Raised(rmv.result)
        /\ \E i \in 1..Len(stdout) : stdout[i] = Msg("failed", rmv.image_id)

\* C14: a call that returns has carried out, in this order, the archive
\* write and read, the remote directory creation, the transmission to the
\* destination's parent directory, the remote extraction, the local unlink
\* and the remote removal; and the archive the extraction command names is
\* one the transmission delivered.
C14_OrderAndSameArchive ==
    (CopyDone /\ outcome.kind = "returned") =>
        /\ [i \in 1..Len(cp.trace) |-> cp.trace[i].step] =
              <<"tar_write", "tar_read", "mkdir", "put_archive", "extract", "unlink", "rm">>
        /\ cp.trace[4].target = DirPath(cp.dst.dir)
        /\ cp.trace[5].target \in cp.delivered

\* the order alone, which the code keeps
C14_OrderOnly ==
    (CopyDone /\ outcome.kind = "returned") =>
        /\ [i \in 1..Len(cp.trace) |-> cp.trace[i].step] =
              <<"tar_write", "tar_read", "mkdir", "put_archive", "extract", "unlink", "rm">>
        /\ cp.trace[4].target = DirPath(cp.dst.dir)

\* C15: the staged archive has exactly one entry, named by the base name of
\* the source, so the file lands at parent(dst)/basename(src), which is dst
\* exactly when the two base names are equal.
C15_OneEntryNamedAfterSource ==
    (CopyDone /\ outcome.kind = "returned") =>
        /\ Len(cp.data.entries) = 1
        /\ cp.data.entries[1].name = cp.src.name
        /\ cp.delivered = {MkPath(cp.dst.dir, cp.src.name)}
        /\ (cp.dst \in cp.delivered) <=> (cp.src.name = cp.dst.name)

\* the same for the sources that are not their own staging archive
C15_ExceptTarSources ==
    (CopyDone /\ outcome.kind = "returned" /\ cp.src # cp.tar_path) =>
        /\ Len(cp.data.entries) = 1
        /\ cp.data.entries[1].name = cp.src.name
        /\ cp.delivered = {MkPath(cp.dst.dir, cp.src.name)}
        /\ (cp.dst \in cp.delivered) <=> (cp.src.name = cp.dst.name)

\* C17: a call never modifies or deletes its source file: once the call has
\* ended the source exists with the content it had, also for a source whose
\* suffix is ".tar".
C17_SourceUntouched ==
    (CopyDone /\ cp.src0.kind # "absent") =>
        /\ Exists(lfs, cp.src)
        /\ lfs[cp.src] = cp.src0

\* C16: the step that raises the timeout failure signals the local unit and
\* leaves the command in the container as it is: a command that was running
\* is still running when the failure reaches the caller.
C16_TimeoutCancelsLocallyOnly ==
    [][(op = "exec" /\ pc = "check" /\ outcome'.val = "TimeoutError")
          => (sigterm' /\ remote' = remote /\ unit' = unit)]_vars

C16_Witness ==
    /\ ExecDone /\ outcome.val = "TimeoutError"
    /\ unit = "killed" /\ remote = "running"

\* C18: a call spawns exactly one unit, and once the call has returned or
\* raised that unit runs no more: it has finished or has been killed.
C18_UnitEndsWithCall ==
    ExecDone =>
        /\ ex.spawned = 1
        /\ unit \in {"finished", "killed"}

\* the count alone, which the code keeps
C18_OneUnitPerCall ==
    ExecDone => ex.spawned = 1

\* a thread's staged archive is on disk as the thread wrote it, from the
\* write until the thread's own unlink, and is what the thread read
StagedIntact(t) ==
    /\ (t.op = "copy" /\ t.pc \in {"tar_read", "mkdir", "put_archive", "extract", "unlink"})
          => (Exists(lfs, t.cp.tar_path) /\ lfs[t.cp.tar_path] = t.cp.staged)
    /\ (t.op = "copy" /\ t.pc \in {"mkdir", "put_archive", "extract", "unlink", "rm"})
          => t.cp.data = t.cp.staged

Running == [op |-> op, pc |-> pc, cp |-> cp, rmv |-> rmv, outcome |-> outcome]

\* C12: two concurrent calls with distinct source paths do not collide on
\* local staging: each has its own staging archive, which the other never
\* overwrites or deletes, and each reads the archive it staged itself.
C12_DistinctSourcesDoNotCollide ==
    (op = "copy" /\ peer.op = "copy" /\ cp.src # peer.cp.src) =>
        /\ (cp.staged.kind = "tar" /\ peer.cp.staged.kind = "tar")
              => cp.tar_path # peer.cp.tar_path
        /\ StagedIntact(Running)
        /\ StagedIntact(peer)

\* the same for sources whose staging paths differ, which the code keeps
C12_DistinctStagingDoNotCollide ==
    (/\ op = "copy" /\ peer.op = "copy"
     /\ WithSuffix(cp.src, ".tar") # WithSuffix(peer.cp.src, ".tar")) =>
        /\ StagedIntact(Running)
        /\ StagedIntact(peer)
====
